---- MODULE Spec2Model ----
(***************************************************************************)
(* The vime-embed component (class Embed, src/docs/sidebars.js:76-259):    *)
(* an iframe whose source is withheld until the element enters the         *)
(* viewport, preconnect hints deduplicated through the module-level set    *)
(* `connected`, and window messages filtered by source window and origin.  *)
(*                                                                         *)
(* Every handler of the class is one action.  Stencil re-renders after a   *)
(* handler has changed a prop or a state field, so every action ends with  *)
(* render.  What a handler sends out (events, preconnect calls, messages   *)
(* posted into the iframe) is recorded for the last handler only, in       *)
(* emitted, preconnectCalls and posted; called holds the postMessage call. *)
(***************************************************************************)
EXTENDS Integers, Sequences, FiniteSets, Bags, TLC

(***************************************************************************)
(* JavaScript values of the fields typed optional or `any`.                *)
(***************************************************************************)
Undefined == <<"undefined">>
Null == <<"null">>
Str(s) == <<"string", s>>
Obj(fields) == <<"object", fields>>
Fn(name) == <<"function", name>>
Win(n) == <<"window", n>>

\* `if (v)` : undefined, null and '' are falsy, objects and other strings truthy
Truthy(v) == v # Undefined /\ v # Null /\ v # Str("")

\* `a ?? b`
Coalesce(a, b) == IF a = Undefined \/ a = Null THEN b ELSE a

\* utils/unit isString
isString(v) == v[1] = "string"

(***************************************************************************)
(* Bounds and input sets.                                                  *)
(***************************************************************************)
Instances == {1, 2}

\* longest preconnections list assigned
MaxPreconnections == 2

PlayerURL == "https://player.example/embed/abc"
EmbedSrcs == {"", PlayerURL}
ParamsSet == {<<>>, << <<"autoplay", "1">> >>}
PreconnectURLs == {"https://cdn.a", PlayerURL}
PreconnectLists == UNION {[1..n -> PreconnectURLs] : n \in 0..MaxPreconnections}
PreconnectResults(list) == [1..Len(list) -> BOOLEAN]

PlayerOrigin == "https://player.example"
EvilOrigin == "https://evil.example"
OriginProps == {Undefined, Str(PlayerOrigin)}
MessageOrigins == {PlayerOrigin, EvilOrigin}
ReadyJSON == "{\"event\":\"ready\"}"
Payloads == {Null, Str(""), Str("junk"), Str(ReadyJSON)}
DecoderProps == {Undefined, Fn("json")}
OtherWindow == Win(0)
MessageSources == {Null, OtherWindow} \cup {Win(i) : i \in Instances}
MessageEvents == [source : MessageSources, origin : MessageOrigins, data : Payloads]
\* the messages an embed without origin and decoder tells apart
PlainEvents == {e \in MessageEvents : e.data = Str("junk")}
OutMessages == {Obj(<< <<"cmd", "play">> >>)}
Targets == {Undefined, Str(PlayerOrigin)}

VARIABLES
  idCount,             \* let idCount (module level)
  connected,           \* const connected = new Set() (module level)
  created,             \* the class instance exists (first attach has happened)
  attached,            \* the element is in the document
  observing,           \* the viewport observation of connectedCallback is live
  iframe,              \* this.iframe is set (first render has happened)
  id,                  \* this.id
  srcWithParams,       \* @State srcWithParams
  hasEnteredViewport,  \* @State hasEnteredViewport
  embedSrc,            \* @Prop embedSrc
  lazy,                \* @Prop lazy
  params,              \* @Prop params
  origin,              \* @Prop origin
  decoder,             \* @Prop decoder
  iframeSrc,           \* the src attribute render gave the iframe
  hinted,              \* bag of URLs for which preconnect issued a hint
  received,            \* the window message the last handler was called with
  watched,             \* the preconnections list whose watcher the last handler ran
  emitted,             \* events emitted by the last handler
  preconnectCalls,     \* preconnect calls of the last handler, with results
  posted,              \* messages the last handler posted into an iframe
  called               \* the postMessage call the last handler was, if it was one

instVars == <<created, attached, observing, iframe, id, srcWithParams,
              hasEnteredViewport, embedSrc, lazy, params, origin, decoder, iframeSrc>>
progVars == <<idCount, connected, instVars, hinted>>
outVars == <<received, watched, emitted, preconnectCalls, posted, called>>
vars == <<progVars, outVars>>

Event(i, name, detail) == [inst |-> i, name |-> name, detail |-> detail]

(***************************************************************************)
(* Helpers of utils/network, utils/dom.                                    *)
(***************************************************************************)
RECURSIVE serializeQueryString(_)
serializeQueryString(p) ==
  IF p = <<>> THEN ""
  ELSE LET kv == p[1][1] \o "=" \o p[1][2]
       IN IF Len(p) = 1 THEN kv ELSE kv \o "&" \o serializeQueryString(Tail(p))

appendParamsToURL(url, p) ==
  IF p = <<>> THEN url ELSE url \o "?" \o serializeQueryString(p)

\* the bag of the entries of a sequence
SeqToBag(s) ==
  [x \in {s[j] : j \in DOMAIN s} |-> Cardinality({j \in DOMAIN s : s[j] = x})]

\* preconnect(url) called for every entry of `urls`, with results `oks`:
\* a call that returns true has appended a preconnect hint for its url
preconnect(urls, oks) ==
  LET done == [j \in 1..Len(urls) |-> [url |-> urls[j], ok |-> oks[j]]]
      good == SelectSeq(done, LAMBDA c : c.ok)
  IN /\ preconnectCalls' = done
     /\ hinted' = hinted (+) SeqToBag([j \in 1..Len(good) |-> good[j].url])

Init ==
  /\ idCount = 0
  /\ connected = {}
  /\ created = [i \in Instances |-> FALSE]
  /\ attached = [i \in Instances |-> FALSE]
  /\ observing = [i \in Instances |-> FALSE]
  /\ iframe = [i \in Instances |-> FALSE]
  /\ id = [i \in Instances |-> Undefined]
  /\ srcWithParams = [i \in Instances |-> ""]
  /\ hasEnteredViewport = [i \in Instances |-> FALSE]
  /\ embedSrc = [i \in Instances |-> ""]
  /\ lazy = [i \in Instances |-> TRUE]
  /\ params = [i \in Instances |-> <<>>]
  /\ origin = [i \in Instances |-> Undefined]
  /\ decoder = [i \in Instances |-> Undefined]
  /\ iframeSrc = [i \in Instances |-> Undefined]
  /\ hinted = EmptyBag
  /\ received = <<>>
  /\ watched = <<>>
  /\ emitted = <<>>
  /\ preconnectCalls = <<>>
  /\ posted = <<>>
  /\ called = <<>>

(***************************************************************************)
(* Methods of the class.  A method reads the fields assigned earlier in    *)
(* the same handler as primed variables.                                   *)
(***************************************************************************)

\* a handler that calls preconnect nowhere
NoPreconnect == UNCHANGED <<connected, hinted>> /\ preconnectCalls' = <<>>

\* render() giving the iframe its source whatever lazy and the viewport say
render_ungated(i) ==
  iframeSrc' = [iframeSrc EXCEPT ![i] =
    IF ~iframe'[i] THEN Undefined ELSE Str(srcWithParams'[i])]

\* render(): the src attribute of the iframe (undefined while no iframe exists)
render(i) ==
  iframeSrc' = [iframeSrc EXCEPT ![i] =
    IF ~iframe'[i] THEN Undefined
    ELSE IF ~lazy'[i] \/ hasEnteredViewport'[i] THEN Str(srcWithParams'[i])
    ELSE Undefined]

\* srcWithParamsChange() without the test of hasEnteredViewport
srcWithParamsChange_afterEntry(i, ok) ==
  /\ IF embedSrc'[i] \notin connected
     THEN /\ preconnect(<<srcWithParams'[i]>>, <<ok>>)
          /\ connected' = IF ok THEN connected \cup {embedSrc'[i]} ELSE connected
     ELSE NoPreconnect
  /\ emitted' = <<Event(i, "embedSrcChange", Str(srcWithParams'[i]))>>

\* srcWithParamsChange() recording the composed URL instead of embedSrc
srcWithParamsChange_recordsURL(i, ok) ==
  /\ IF ~hasEnteredViewport[i] /\ embedSrc'[i] \notin connected
     THEN /\ preconnect(<<srcWithParams'[i]>>, <<ok>>)
          /\ connected' = IF ok THEN connected \cup {srcWithParams'[i]} ELSE connected
     ELSE NoPreconnect
  /\ emitted' = <<Event(i, "embedSrcChange", Str(srcWithParams'[i]))>>

\* @Watch('srcWithParams') srcWithParamsChange()
srcWithParamsChange(i, ok) ==
  /\ IF ~hasEnteredViewport[i] /\ embedSrc'[i] \notin connected
     THEN /\ preconnect(<<srcWithParams'[i]>>, <<ok>>)
          /\ connected' = IF ok THEN connected \cup {embedSrc'[i]} ELSE connected
     ELSE NoPreconnect
  /\ emitted' = <<Event(i, "embedSrcChange", Str(srcWithParams'[i]))>>

\* srcChange() composing the URL from embedSrc alone
srcChange_paramsDropped(i, ok) ==
  /\ srcWithParams' = [srcWithParams EXCEPT ![i] = embedSrc'[i]]
  /\ IF srcWithParams'[i] # srcWithParams[i]
     THEN srcWithParamsChange(i, ok)
     ELSE NoPreconnect /\ emitted' = <<>>

\* @Watch('embedSrc') @Watch('params') srcChange(); the watcher of
\* srcWithParams runs when the assignment changes the value
srcChange(i, ok) ==
  /\ srcWithParams' = [srcWithParams EXCEPT ![i] = appendParamsToURL(embedSrc'[i], params'[i])]
  /\ IF srcWithParams'[i] # srcWithParams[i]
     THEN srcWithParamsChange(i, ok)
     ELSE NoPreconnect /\ emitted' = <<>>

\* preconnectionsChange() without the filter on `connected`
preconnectionsChange_unfiltered(i, list, oks) ==
  IF hasEnteredViewport[i] THEN NoPreconnect
  ELSE /\ preconnect(list, oks)
       /\ connected' = connected \cup {list[j] : j \in {k \in 1..Len(list) : oks[k]}}

\* preconnectionsChange() recording every entry, whatever preconnect returned
preconnectionsChange_resultIgnored(i, list, oks) ==
  IF hasEnteredViewport[i] THEN NoPreconnect
  ELSE LET todo == SelectSeq(list, LAMBDA c : c \notin connected)
       IN /\ preconnect(todo, oks)
          /\ connected' = connected \cup {todo[j] : j \in 1..Len(todo)}

\* @Watch('preconnections') preconnectionsChange(), the prop holding `list`
preconnectionsChange(i, list, oks) ==
  IF hasEnteredViewport[i] THEN NoPreconnect
  ELSE LET todo == SelectSeq(list, LAMBDA c : c \notin connected)
       IN /\ preconnect(todo, oks)
          /\ connected' = connected \cup {todo[j] : j \in {k \in 1..Len(todo) : oks[k]}}

\* genIframeId() without the increment of idCount
genIframeId_noIncrement(i) ==
  /\ idCount' = idCount
  /\ id' = [id EXCEPT ![i] = Str("vime-iframe-" \o ToString(idCount'))]

\* genIframeId()
genIframeId(i) ==
  /\ idCount' = idCount + 1
  /\ id' = [id EXCEPT ![i] = Str("vime-iframe-" \o ToString(idCount'))]

\* this.iframe?.contentWindow: an iframe outside a document has no window
contentWindow(i) ==
  IF ~iframe[i] THEN Undefined ELSE IF attached[i] THEN Win(i) ELSE Null

\* the decoders a page configures: JSON.parse guarded, undefined on failure
Decode(d, data) ==
  IF d = Fn("json") /\ data = Str(ReadyJSON) THEN Obj(<< <<"event", "ready">> >>)
  ELSE Undefined

RECURSIVE stringifyFields(_)
stringifyFields(f) ==
  IF f = <<>> THEN ""
  ELSE LET kv == "\"" \o f[1][1] \o "\":\"" \o f[1][2] \o "\""
       IN IF Len(f) = 1 THEN kv ELSE kv \o "," \o stringifyFields(Tail(f))

\* JSON.stringify of an object of string fields
JSONstringify(m) == "{" \o stringifyFields(m[2]) \o "}"

(***************************************************************************)
(* Handlers.                                                               *)
(***************************************************************************)

\* connectedCallback(): start the viewport observation, compose the URL
connectedCallback(i, ok) ==
  /\ ~attached[i]
  /\ attached' = [attached EXCEPT ![i] = TRUE]
  /\ created' = [created EXCEPT ![i] = TRUE]
  /\ observing' = [observing EXCEPT ![i] = TRUE]
  /\ UNCHANGED <<embedSrc, params, lazy, origin, decoder, hasEnteredViewport,
                 iframe, id, idCount>>
  /\ srcChange(i, ok)
  /\ received' = <<>> /\ watched' = <<>> /\ posted' = <<>> /\ called' = <<>>
  /\ render(i)

\* componentWillLoad(), followed by the first render, which creates the iframe
componentWillLoad(i) ==
  /\ attached[i] /\ ~iframe[i]
  /\ genIframeId(i)
  /\ iframe' = [iframe EXCEPT ![i] = TRUE]
  /\ UNCHANGED <<created, attached, observing, srcWithParams, hasEnteredViewport,
                 embedSrc, lazy, params, origin, decoder>>
  /\ NoPreconnect
  /\ received' = <<>> /\ watched' = <<>> /\ emitted' = <<>> /\ posted' = <<>> /\ called' = <<>>
  /\ render(i)

\* disconnectedCallback() that does not call the disposer
disconnectedCallback_noCleanup(i) ==
  /\ attached[i]
  /\ attached' = [attached EXCEPT ![i] = FALSE]
  /\ UNCHANGED <<created, observing, iframe, id, idCount, srcWithParams,
                 hasEnteredViewport, embedSrc, lazy, params, origin, decoder>>
  /\ NoPreconnect
  /\ received' = <<>> /\ watched' = <<>> /\ emitted' = <<>> /\ posted' = <<>> /\ called' = <<>>
  /\ render(i)

\* disconnectedCallback(): call the disposer of the viewport observation
disconnectedCallback(i) ==
  /\ attached[i]
  /\ attached' = [attached EXCEPT ![i] = FALSE]
  /\ observing' = [observing EXCEPT ![i] = FALSE]
  /\ UNCHANGED <<created, iframe, id, idCount, srcWithParams, hasEnteredViewport,
                 embedSrc, lazy, params, origin, decoder>>
  /\ NoPreconnect
  /\ received' = <<>> /\ watched' = <<>> /\ emitted' = <<>> /\ posted' = <<>> /\ called' = <<>>
  /\ render(i)

\* the callback announcing the source the iframe is given by the entry
enterViewport_announces(i) ==
  /\ observing[i]
  /\ hasEnteredViewport' = [hasEnteredViewport EXCEPT ![i] = TRUE]
  /\ observing' = [observing EXCEPT ![i] = FALSE]
  /\ UNCHANGED <<created, attached, iframe, id, idCount, srcWithParams,
                 embedSrc, lazy, params, origin, decoder>>
  /\ NoPreconnect
  /\ emitted' = <<Event(i, "embedSrcChange", Str(srcWithParams[i]))>>
  /\ received' = <<>> /\ watched' = <<>> /\ posted' = <<>> /\ called' = <<>>
  /\ render(i)

\* the callback storing the current visibility instead of true
enterViewport_toggles(i) ==
  /\ observing[i]
  /\ hasEnteredViewport' = [hasEnteredViewport EXCEPT ![i] = ~hasEnteredViewport[i]]
  /\ observing' = [observing EXCEPT ![i] = FALSE]
  /\ UNCHANGED <<created, attached, iframe, id, idCount, srcWithParams,
                 embedSrc, lazy, params, origin, decoder>>
  /\ NoPreconnect
  /\ received' = <<>> /\ watched' = <<>> /\ emitted' = <<>> /\ posted' = <<>> /\ called' = <<>>
  /\ render(i)

\* the callback given to onElementEntersViewport, called once per observation
enterViewport(i) ==
  /\ observing[i]
  /\ hasEnteredViewport' = [hasEnteredViewport EXCEPT ![i] = TRUE]
  /\ observing' = [observing EXCEPT ![i] = FALSE]
  /\ UNCHANGED <<created, attached, iframe, id, idCount, srcWithParams,
                 embedSrc, lazy, params, origin, decoder>>
  /\ NoPreconnect
  /\ received' = <<>> /\ watched' = <<>> /\ emitted' = <<>> /\ posted' = <<>> /\ called' = <<>>
  /\ render(i)

\* embedSrc assigned another string
setEmbedSrc(i, s, ok) ==
  /\ s # embedSrc[i]
  /\ embedSrc' = [embedSrc EXCEPT ![i] = s]
  /\ UNCHANGED <<created, attached, observing, iframe, id, idCount,
                 hasEnteredViewport, lazy, params, origin, decoder>>
  /\ IF created[i] THEN srcChange(i, ok)
     ELSE UNCHANGED srcWithParams /\ NoPreconnect /\ emitted' = <<>>
  /\ received' = <<>> /\ watched' = <<>> /\ posted' = <<>> /\ called' = <<>>
  /\ render(i)

\* params assigned without the @Watch('params') on srcChange
setParams_unwatched(i, p, ok) ==
  /\ params' = [params EXCEPT ![i] = p]
  /\ UNCHANGED <<created, attached, observing, iframe, id, idCount,
                 hasEnteredViewport, lazy, embedSrc, origin, decoder>>
  /\ UNCHANGED srcWithParams /\ NoPreconnect /\ emitted' = <<>>
  /\ received' = <<>> /\ watched' = <<>> /\ posted' = <<>> /\ called' = <<>>
  /\ render(i)

\* params assigned another object (which may hold the same entries)
setParams(i, p, ok) ==
  /\ params' = [params EXCEPT ![i] = p]
  /\ UNCHANGED <<created, attached, observing, iframe, id, idCount,
                 hasEnteredViewport, lazy, embedSrc, origin, decoder>>
  /\ IF created[i] THEN srcChange(i, ok)
     ELSE UNCHANGED srcWithParams /\ NoPreconnect /\ emitted' = <<>>
  /\ received' = <<>> /\ watched' = <<>> /\ posted' = <<>> /\ called' = <<>>
  /\ render(i)

\* lazy assigned the other value
setLazy(i) ==
  /\ lazy' = [lazy EXCEPT ![i] = ~lazy[i]]
  /\ UNCHANGED <<created, attached, observing, iframe, id, idCount, srcWithParams,
                 hasEnteredViewport, embedSrc, params, origin, decoder>>
  /\ NoPreconnect
  /\ received' = <<>> /\ watched' = <<>> /\ emitted' = <<>> /\ posted' = <<>> /\ called' = <<>>
  /\ render(i)

\* preconnections assigned another array
setPreconnections(i, list, oks) ==
  /\ UNCHANGED <<created, attached, observing, iframe, id, idCount, srcWithParams,
                 hasEnteredViewport, embedSrc, lazy, params, origin, decoder>>
  /\ IF created[i]
     THEN preconnectionsChange(i, list, oks) /\ watched' = <<[inst |-> i, list |-> list]>>
     ELSE NoPreconnect /\ watched' = <<>>
  /\ received' = <<>> /\ emitted' = <<>> /\ posted' = <<>> /\ called' = <<>>
  /\ render(i)

\* origin assigned another value
setOrigin(i, o) ==
  /\ o # origin[i]
  /\ origin' = [origin EXCEPT ![i] = o]
  /\ UNCHANGED <<created, attached, observing, iframe, id, idCount, srcWithParams,
                 hasEnteredViewport, embedSrc, lazy, params, decoder>>
  /\ NoPreconnect
  /\ received' = <<>> /\ watched' = <<>> /\ emitted' = <<>> /\ posted' = <<>> /\ called' = <<>>
  /\ render(i)

\* decoder assigned another value
setDecoder(i, d) ==
  /\ d # decoder[i]
  /\ decoder' = [decoder EXCEPT ![i] = d]
  /\ UNCHANGED <<created, attached, observing, iframe, id, idCount, srcWithParams,
                 hasEnteredViewport, embedSrc, lazy, params, origin>>
  /\ NoPreconnect
  /\ received' = <<>> /\ watched' = <<>> /\ emitted' = <<>> /\ posted' = <<>> /\ called' = <<>>
  /\ render(i)

\* originMatches comparing the origin only
originMatches_sourceUnchecked(i, e) ==
  ~isString(origin[i]) \/ origin[i] = Str(e.origin)

\* originMatches comparing the source only
originMatches_originUnchecked(i, e) ==
  e.source = contentWindow(i)

\* const originMatches = ... of onWindowMessage
originMatches(i, e) ==
  /\ e.source = contentWindow(i)
  /\ (~isString(origin[i]) \/ origin[i] = Str(e.origin))

\* the message taken from the payload whatever the decoder returns
decodedMessage_raw(i, e) == e.data

\* const message = this.decoder?.(e.data) ?? e.data
decodedMessage(i, e) ==
  Coalesce(IF decoder[i] = Undefined THEN Undefined ELSE Decode(decoder[i], e.data),
           e.data)

\* @Listen('message', { target: 'window' }) onWindowMessage(e); the listener
\* is on the window while the element is attached, and e is a MessageEvent,
\* whose source is a window or null
onWindowMessage(i, e) ==
  /\ attached[i]
  /\ received' = <<[to |-> i, e |-> e]>> /\ watched' = <<>>
  /\ emitted' = IF originMatches(i, e) /\ Truthy(decodedMessage(i, e))
                THEN <<Event(i, "embedMessage", decodedMessage(i, e))>>
                ELSE <<>>
  /\ UNCHANGED instVars
  /\ UNCHANGED idCount
  /\ NoPreconnect
  /\ posted' = <<>> /\ called' = <<>>

\* @Method postMessage(message, target)
postMessage(i, message, target) ==
  /\ created[i]
  /\ posted' = IF contentWindow(i) = Win(i)
               THEN <<[to |-> Win(i), data |-> JSONstringify(message),
                       target |-> Coalesce(target, Str("*"))]>>
               ELSE <<>>
  /\ called' = <<[inst |-> i, message |-> message, target |-> target]>>
  /\ UNCHANGED instVars
  /\ UNCHANGED idCount
  /\ NoPreconnect
  /\ received' = <<>> /\ watched' = <<>> /\ emitted' = <<>>

\* onLoad() that emits nothing
onLoad_silent(i) ==
  /\ iframe[i] /\ attached[i]
  /\ emitted' = <<>>
  /\ UNCHANGED instVars
  /\ UNCHANGED idCount
  /\ NoPreconnect
  /\ received' = <<>> /\ watched' = <<>> /\ posted' = <<>> /\ called' = <<>>

\* onLoad(): the load event of the iframe
onLoad(i) ==
  /\ iframe[i] /\ attached[i]
  /\ emitted' = <<Event(i, "embedLoaded", Undefined)>>
  /\ UNCHANGED instVars
  /\ UNCHANGED idCount
  /\ NoPreconnect
  /\ received' = <<>> /\ watched' = <<>> /\ posted' = <<>> /\ called' = <<>>

(***************************************************************************)
(* Spec: a page holding one embed: its life cycle, source, hints, load     *)
(* events and messages, the origin and decoder props left unset.           *)
(***************************************************************************)
Next ==
  \/ \E ok \in BOOLEAN : connectedCallback(1, ok)
  \/ componentWillLoad(1)
  \/ disconnectedCallback(1)
  \/ enterViewport(1)
  \/ \E s \in EmbedSrcs, ok \in BOOLEAN : setEmbedSrc(1, s, ok)
  \/ \E p \in ParamsSet, ok \in BOOLEAN : setParams(1, p, ok)
  \/ setLazy(1)
  \/ \E list \in PreconnectLists : \E oks \in PreconnectResults(list) :
       setPreconnections(1, list, oks)
  \/ \E e \in PlainEvents : onWindowMessage(1, e)
  \/ \E m \in OutMessages, t \in Targets : postMessage(1, m, t)
  \/ onLoad(1)

Spec == Init /\ [][Next]_vars

(***************************************************************************)
(* SpecPage: a page holding two embeds whose sources are left as           *)
(* constructed; their life cycles, message props and messages interleave.  *)
(***************************************************************************)
NextPage ==
  \/ \E i \in Instances, ok \in BOOLEAN : connectedCallback(i, ok)
  \/ \E i \in Instances : componentWillLoad(i)
  \/ \E i \in Instances : disconnectedCallback(i)
  \/ \E i \in Instances : enterViewport(i)
  \/ \E i \in Instances, o \in OriginProps : setOrigin(i, o)
  \/ \E i \in Instances, d \in DecoderProps : setDecoder(i, d)
  \/ \E i \in Instances, e \in MessageEvents : onWindowMessage(i, e)
  \/ \E i \in Instances, m \in OutMessages, t \in Targets : postMessage(i, m, t)
  \/ \E i \in Instances : onLoad(i)

SpecPage == Init /\ [][NextPage]_vars

(***************************************************************************)
(* Properties.                                                             *)
(***************************************************************************)
ComposedURL == PlayerURL \o "?autoplay=1"
JunkFrom(w, o) == [source |-> w, origin |-> o, data |-> Str("junk")]

\* the message of the last handler, when it was onWindowMessage of embed i
Got(i) == {received[j].e : j \in {k \in DOMAIN received : received[k].to = i}}

\* the message passes both checks of embed i: it comes from the embed's own
\* iframe window, and from the origin prop when that is a string
Passes(i, e) ==
  /\ iframe[i] /\ e.source = Win(i)
  /\ (origin[i] = Undefined \/ origin[i] = Str(e.origin))

\* a payload or decoder result that is empty or absent
Empty(v) == v \in {Undefined, Null, Str("")}

\* C1: while lazy is true, the iframe has no src until the viewport callback
\* has fired, and from then on (once the iframe exists) its src is
\* srcWithParams.
C1_LazySourceGated ==
  \A i \in Instances :
    lazy[i] => iframeSrc[i] = IF iframe[i] /\ hasEnteredViewport[i]
                              THEN Str(srcWithParams[i])
                              ELSE Undefined

C1_Witness ==
  /\ lazy[1] /\ iframe[1] /\ attached[1] /\ ~hasEnteredViewport[1]
  /\ srcWithParams[1] = ComposedURL
  /\ iframeSrc[1] = Undefined

\* C2: a message whose source is not the embed's own iframe window makes
\* onWindowMessage emit nothing, whatever the message's origin and the origin
\* prop are, and also while the embed has no iframe.
C2_ForeignSourceNeverEmitted ==
  \A i \in Instances : \A e \in Got(i) :
    (~iframe[i] \/ e.source # Win(i)) => emitted = <<>>

C2_Witness ==
  /\ iframe[1] /\ attached[1] /\ iframe[2] /\ attached[2]
  /\ origin[1] = Undefined
  /\ received = <<[to |-> 1, e |-> JunkFrom(Win(2), PlayerOrigin)]>>
  /\ emitted = <<>>

\* C3: with the origin prop a string, a message of another origin is dropped
\* by onWindowMessage even when it comes from the embed's own iframe: nothing
\* is emitted, posted or hinted, and no field of the program changes.
C3_OtherOriginDropped ==
  [][\A j \in DOMAIN received' :
       LET i == received'[j].to
           e == received'[j].e
       IN (isString(origin[i]) /\ origin[i] # Str(e.origin))
          => /\ emitted' = <<>> /\ posted' = <<>> /\ preconnectCalls' = <<>>
             /\ UNCHANGED progVars]_vars

C3_Witness ==
  /\ iframe[1] /\ attached[1]
  /\ origin[1] = Str(PlayerOrigin)
  /\ received = <<[to |-> 1, e |-> JunkFrom(Win(1), EvilOrigin)]>>
  /\ emitted = <<>>

\* C4: when the decoder returns an empty or absent result for a message that
\* passed the source and origin checks, nothing is emitted.
C4_DecoderRejectionSuppresses ==
  \A i \in Instances : \A e \in Got(i) :
    (Passes(i, e) /\ decoder[i] # Undefined /\ Empty(Decode(decoder[i], e.data)))
    => emitted = <<>>

\* C5: a message that passed both checks is emitted with the raw payload when
\* there is no decoder and the payload is not empty, is not emitted when
\* there is no decoder and the payload is empty, and is emitted with the
\* decoder's result when that result is not empty.
C5_ForwardedPayload ==
  \A i \in Instances : \A e \in Got(i) :
    Passes(i, e) =>
      /\ (decoder[i] = Undefined /\ ~Empty(e.data))
           => emitted = <<Event(i, "embedMessage", e.data)>>
      /\ (decoder[i] = Undefined /\ Empty(e.data))
           => emitted = <<>>
      /\ (decoder[i] # Undefined /\ ~Empty(Decode(decoder[i], e.data)))
           => emitted = <<Event(i, "embedMessage", Decode(decoder[i], e.data))>>

C5_Witness ==
  /\ iframe[1] /\ attached[1]
  /\ decoder[1] = Fn("json")
  /\ received = <<[to |-> 1, e |-> [source |-> Win(1), origin |-> PlayerOrigin,
                                    data |-> Str(ReadyJSON)]]>>
  /\ emitted = <<Event(1, "embedMessage", Obj(<< <<"event", "ready">> >>))>>

\* C6: every assignment of embedSrc or params to an existing embed emits one
\* embedSrcChange whose payload is the URL composed of the new values.
C6_EveryChangeEmits ==
  [][\A i \in Instances :
       (created[i] /\ (\/ \E s \in EmbedSrcs, ok \in BOOLEAN : setEmbedSrc(i, s, ok)
                       \/ \E p \in ParamsSet, ok \in BOOLEAN : setParams(i, p, ok)))
       => emitted' = <<Event(i, "embedSrcChange",
                             Str(appendParamsToURL(embedSrc'[i], params'[i])))>>]_vars

\* C7: the iframe's src is the URL composed of the current embedSrc and
\* params whenever lazy is false or the viewport was entered, from the first
\* render on and after every change of embedSrc or params; otherwise it is
\* unset, and takes the latest composed URL when the viewport callback fires.
C7_SourceFollowsConfiguration ==
  \A i \in Instances :
    iframe[i] => iframeSrc[i] = IF ~lazy[i] \/ hasEnteredViewport[i]
                                THEN Str(appendParamsToURL(embedSrc[i], params[i]))
                                ELSE Undefined

C7_Witness ==
  /\ ~lazy[1] /\ iframe[1] /\ ~hasEnteredViewport[1]
  /\ emitted = <<Event(1, "embedSrcChange", Str(ComposedURL))>>
  /\ iframeSrc[1] = Str(ComposedURL)

\* C8: no URL is hinted more than once in the life of the process.
C8_AtMostOneHintPerKey ==
  \A k \in BagToSet(hinted) : CopiesIn(k, hinted) <= 1

\* C9: once hasEnteredViewport is true, a change of embedSrc, params or
\* preconnections of that embed calls preconnect for nothing and leaves the
\* registry as it is.
C9_NoHintAfterEntry ==
  [][\A i \in Instances :
       (hasEnteredViewport[i]
        /\ (\/ \E s \in EmbedSrcs, ok \in BOOLEAN : setEmbedSrc(i, s, ok)
            \/ \E p \in ParamsSet, ok \in BOOLEAN : setParams(i, p, ok)
            \/ \E j \in DOMAIN watched' : watched'[j].inst = i))
       => /\ preconnectCalls' = <<>>
          /\ UNCHANGED <<connected, hinted>>]_vars

C9_Witness ==
  /\ hasEnteredViewport[1]
  /\ PlayerURL \notin connected
  /\ emitted = <<Event(1, "embedSrcChange", Str(PlayerURL))>>
  /\ preconnectCalls = <<>>

\* C10: a change of preconnections before the viewport is entered calls
\* preconnect for the entries of the new list that are not in the registry,
\* in order, and for nothing else; every call that succeeds is one hint.
C10_HintsForNewEntries ==
  [][\A j \in DOMAIN watched' :
       ~hasEnteredViewport[watched'[j].inst]
       => LET calls == preconnectCalls'
              good == SelectSeq(calls, LAMBDA c : c.ok)
          IN /\ [k \in DOMAIN calls |-> calls[k].url]
                  = SelectSeq(watched'[j].list, LAMBDA c : c \notin connected)
             /\ hinted' = hinted (+) SeqToBag([k \in DOMAIN good |-> good[k].url])]_vars

C10_Witness ==
  /\ ~hasEnteredViewport[1]
  /\ watched = <<[inst |-> 1, list |-> <<"https://cdn.a", PlayerURL>>]>>
  /\ preconnectCalls = <<[url |-> "https://cdn.a", ok |-> TRUE],
                         [url |-> PlayerURL, ok |-> TRUE]>>
  /\ hinted = SetToBag({"https://cdn.a", PlayerURL})
  /\ connected = {"https://cdn.a", PlayerURL}

\* the postMessage calls of the last handler made on embed i
Calls(i) == {called[j] : j \in {k \in DOMAIN called : called[k].inst = i}}

\* C11: postMessage called while the iframe has no source yet
\* (lazy with the viewport not entered, or the iframe not rendered) posts
\* nothing into any window.
C11_NothingPostedBeforeArmed ==
  \A i \in Instances :
    (Calls(i) # {} /\ ((lazy[i] /\ ~hasEnteredViewport[i]) \/ ~iframe[i]))
      => posted = <<>>

\* C12: hasEnteredViewport is false for an embed that was never attached, and
\* no step of any handler (visibility callbacks of a first or a later
\* observation, prop changes, detach, re-attach) takes it from true to false.
C12_EnteredNeverReverts ==
  /\ \A i \in Instances : ~hasEnteredViewport[i]
  /\ [][\A i \in Instances :
          /\ hasEnteredViewport[i] => hasEnteredViewport'[i]
          /\ ~created'[i] => ~hasEnteredViewport'[i]]_vars

\* the embed entered the viewport, was detached and attached again, and the
\* callback of the second observation has not fired yet
C12_Witness ==
  /\ hasEnteredViewport[1] /\ attached[1] /\ observing[1]

\* C13: while an embed is detached its viewport observation is disposed, so
\* no visibility callback can run on it, whether or not the callback had fired
\* before the disposer was called; and postMessage called on a detached embed
\* posts nothing.
C13_DetachedIsInert ==
  \A i \in Instances :
    ~attached[i] =>
      /\ ~observing[i]
      /\ ~ENABLED enterViewport(i)
      /\ Calls(i) # {} => posted = <<>>

\* postMessage was called on an embed detached after its viewport callback
\* had fired and its iframe had been rendered
C13_Witness ==
  /\ created[1] /\ ~attached[1] /\ iframe[1] /\ hasEnteredViewport[1]
  /\ Calls(1) # {}
  /\ posted = <<>>

\* C14: after every step, an embed that has been attached holds in
\* srcWithParams the URL composed of its current embedSrc and params; and
\* srcWithParams is written only by a step that changes embedSrc or params or
\* that attaches the embed.
C14_ComposedURLIsCurrent ==
  [][\A i \in Instances :
       /\ created'[i] =>
            srcWithParams'[i] = appendParamsToURL(embedSrc'[i], params'[i])
       /\ srcWithParams'[i] # srcWithParams[i] =>
            \/ embedSrc'[i] # embedSrc[i]
            \/ params'[i] # params[i]
            \/ ~attached[i] /\ attached'[i]]_vars

\* a detached embed whose source was changed holds the newly composed URL
C14_Witness ==
  /\ created[1] /\ ~attached[1]
  /\ srcWithParams[1] = ComposedURL
  /\ emitted = <<Event(1, "embedSrcChange", Str(ComposedURL))>>

\* C15 (as stated): a step that changes the composed URL of an embed that has
\* not entered the viewport calls preconnect with the composed URL unless
\* embedSrc is in the registry already, and embedSrc is in the registry after
\* the step.
C15_HintedThenRecorded ==
  [][\A i \in Instances :
       (srcWithParams'[i] # srcWithParams[i] /\ ~hasEnteredViewport[i]) =>
         /\ embedSrc'[i] \notin connected =>
              \E ok \in BOOLEAN :
                preconnectCalls' = <<[url |-> srcWithParams'[i], ok |-> ok]>>
         /\ embedSrc'[i] \in connected']_vars

\* C15: a step that changes the composed URL of an embed that has not
\* entered the viewport calls preconnect once, with the composed URL, unless
\* embedSrc is in the registry already; embedSrc is added to the registry
\* exactly when that call returns true; and with embedSrc in the registry
\* (a later change of params alone included) the step calls nothing and
\* leaves the registry as it is.
C15_HintedAndRecordedOnSuccess ==
  [][\A i \in Instances :
       (srcWithParams'[i] # srcWithParams[i] /\ ~hasEnteredViewport[i]) =>
         IF embedSrc'[i] \notin connected
         THEN \E ok \in BOOLEAN :
                /\ preconnectCalls' = <<[url |-> srcWithParams'[i], ok |-> ok]>>
                /\ connected' = IF ok THEN connected \cup {embedSrc'[i]}
                                ELSE connected
                /\ hinted' = IF ok THEN hinted (+) SetToBag({srcWithParams'[i]})
                             ELSE hinted
         ELSE /\ preconnectCalls' = <<>>
              /\ connected' = connected
              /\ hinted' = hinted]_vars

\* params changed on an embed whose embedSrc was recorded by the hint made
\* with the plain URL: the change of the composed URL made no call
C15_Witness ==
  /\ created[1] /\ ~hasEnteredViewport[1]
  /\ embedSrc[1] = PlayerURL
  /\ emitted = <<Event(1, "embedSrcChange", Str(ComposedURL))>>
  /\ preconnectCalls = <<>>
  /\ connected = {PlayerURL}
  /\ hinted = SetToBag({PlayerURL})

\* C16: an embed's id is assigned in a step that increments idCount and is
\* "vime-iframe-" followed by the new count; idCount never decreases; an id
\* once assigned never changes, detach and re-attach included; and no two
\* embeds hold the same id.
C16_IdsDistinctAndStable ==
  [][/\ idCount' >= idCount
     /\ \A i \in Instances :
          /\ id[i] # Undefined => id'[i] = id[i]
          /\ id'[i] # id[i] =>
               /\ idCount' = idCount + 1
               /\ id'[i] = Str("vime-iframe-" \o ToString(idCount'))
     /\ \A i, j \in Instances :
          (i # j /\ id'[i] # Undefined) => id'[i] # id'[j]]_vars

\* both embeds of the page hold an id, embed 2 the first and embed 1 the
\* second, and embed 1 has been detached and attached again since
C16_Witness ==
  /\ id[1] = Str("vime-iframe-2") /\ id[2] = Str("vime-iframe-1")
  /\ idCount = 2
  /\ hasEnteredViewport[1] /\ attached[1] /\ observing[1]

\* C17: once the iframe of an embed has been given a URL as its src, no step
\* leaves it without a src.
C17_SourceNeverWithdrawn ==
  [][\A i \in Instances :
       iframeSrc[i] \notin {Undefined, Str("")} => iframeSrc'[i] # Undefined]_vars

\* the embedLoaded events among the events of the last handler
Loaded(ev) == {j \in DOMAIN ev : ev[j].name = "embedLoaded"}

\* C18: a load event of an embed's iframe emits one embedLoaded event of that
\* embed and nothing else; a step emits embedLoaded only if it is a load
\* event; and a load leaves every handler as enabled as before, so that the
\* source can still be changed and a further load event emits embedLoaded
\* again.
C18_LoadedOncePerLoad ==
  [][\A i \in Instances :
       /\ onLoad(i) => emitted' = <<Event(i, "embedLoaded", Undefined)>>
       /\ (\E j \in Loaded(emitted') : emitted'[j].inst = i) => onLoad(i)
       /\ (\E j \in Loaded(emitted) : emitted[j].inst = i) =>
            /\ ENABLED onLoad(i)
            /\ ENABLED (\E s \in EmbedSrcs, ok \in BOOLEAN :
                          /\ setEmbedSrc(i, s, ok)
                          /\ srcWithParams'[i] # srcWithParams[i]
                          /\ emitted' = <<Event(i, "embedSrcChange",
                                                Str(srcWithParams'[i]))>>)]_vars

\* the iframe of an embed that entered the viewport and was then given other
\* params has loaded the newly composed URL
C18_Witness ==
  /\ hasEnteredViewport[1] /\ lazy[1]
  /\ iframeSrc[1] = Str(ComposedURL)
  /\ PlayerURL \notin connected
  /\ emitted = <<Event(1, "embedLoaded", Undefined)>>

\* the registry key a preconnect call of the last handler stands for: the
\* entry itself when the preconnections watcher made the call, embedSrc when
\* the call was made with the composed URL
KeyOf(c) ==
  IF watched # <<>> THEN c.url
  ELSE IF emitted # <<>> /\ c.url = srcWithParams[emitted[1].inst]
       THEN embedSrc[emitted[1].inst]
       ELSE "no key"

\* the keys for which a preconnect call of the last handler returned true
Succeeded ==
  {KeyOf(preconnectCalls[j]) : j \in {k \in DOMAIN preconnectCalls :
                                        preconnectCalls[k].ok}}

\* the embed whose handler made the preconnect calls of the last handler
Caller == IF watched # <<>> THEN watched[1].inst ELSE emitted[1].inst

\* C19: no step removes a key from `connected`; the keys a step adds are
\* exactly the keys for which a preconnect call of that step returned true, so
\* a key whose calls all returned false is not added; and after such a call,
\* with the viewport not entered, a further change of preconnections or of
\* params calls preconnect again.
C19_RegistryHoldsSuccessfulHints ==
  [][/\ connected \subseteq connected'
     /\ connected' \ connected = Succeeded'
     /\ "no key" \notin connected'
     /\ \A j \in DOMAIN preconnectCalls :
          (~preconnectCalls[j].ok /\ KeyOf(preconnectCalls[j]) \notin connected
             /\ ~hasEnteredViewport[Caller]) =>
            IF watched # <<>>
            THEN ENABLED (\E oks \in PreconnectResults(<<preconnectCalls[j].url>>) :
                            /\ setPreconnections(Caller, <<preconnectCalls[j].url>>, oks)
                            /\ preconnectCalls' # <<>>)
            ELSE ENABLED (\E p \in ParamsSet, ok \in BOOLEAN :
                            /\ setParams(Caller, p, ok)
                            /\ preconnectCalls' # <<>>)]_vars

\* the hint for the player URL, made with the composed URL, failed and the
\* URL is not in the registry, which holds the key of an earlier hint
C19_Witness ==
  /\ ~hasEnteredViewport[1]
  /\ embedSrc[1] = PlayerURL
  /\ preconnectCalls = <<[url |-> ComposedURL, ok |-> FALSE]>>
  /\ connected = {"https://cdn.a"}

\* C20: a step in which the viewport callback of an embed fires (its flag
\* turns true, or its observation ends while it stays attached) changes, of
\* the program's state, only hasEnteredViewport and the end of the observation
\* and the src the iframe is rendered with: srcWithParams, the registry and the
\* hints are as before, no preconnect call is made and no event is emitted.
C20_EntryOnlySetsFlag ==
  [][\A i \in Instances :
       (\/ ~hasEnteredViewport[i] /\ hasEnteredViewport'[i]
        \/ observing[i] /\ ~observing'[i] /\ attached'[i]) =>
         /\ enterViewport(i)
         /\ hasEnteredViewport'[i]
         /\ \A j \in Instances \ {i} :
              /\ hasEnteredViewport'[j] = hasEnteredViewport[j]
              /\ iframeSrc'[j] = iframeSrc[j]
         /\ iframeSrc'[i] = IF iframe[i] THEN Str(srcWithParams[i]) ELSE Undefined
         /\ UNCHANGED <<srcWithParams, connected, hinted, idCount, id, created,
                        attached, iframe, embedSrc, params, lazy, origin, decoder>>
         /\ preconnectCalls' = <<>>
         /\ emitted' = <<>> /\ posted' = <<>>]_vars

\* the viewport callback gave the lazy iframe its composed URL, with the
\* player URL never hinted
C20_Witness ==
  /\ hasEnteredViewport[1] /\ ~observing[1] /\ attached[1] /\ lazy[1]
  /\ iframeSrc[1] = Str(ComposedURL)
  /\ connected = {} /\ hinted = EmptyBag
  /\ emitted = <<>> /\ preconnectCalls = <<>>

====
